---- MODULE Spec2Model ----
(***************************************************************************)
(* Model of the GraphQL client of pzentenoe/graphql-client                 *)
(* (src/graphql_request.go): a caller builds a GraphRequest (Var, File),   *)
(* then calls Client.Run, which checks the context, checks files against   *)
(* the client mode, encodes the body (JSON or multipart/form-data), sends  *)
(* it through the injected HTTPDoer, buffers the response body and decodes *)
(* it.  The transport, the attachment readers and the context are the      *)
(* environment: their outcomes are chosen nondeterministically.            *)
(*                                                                         *)
(* Run is split at its blocking calls: io.Copy of each attachment,         *)
(* httpClient.Do, and io.Copy of the response body.  Both calling forms of *)
(* Run are modelled: the unified form returning a GraphResponse and an error *)
(* and the legacy form with a second error target returning error.         *)
(***************************************************************************)
EXTENDS Integers, Sequences, FiniteSets, TLC

(* ---------------------------- bounds ---------------------------------- *)
MaxFiles == 2
MaxVarCalls == 2
MaxErrors == 2
MaxHeaderAdds == 2

(* ------------------------ program constants --------------------------- *)
StatusOK == 200
messageCodeNotOK == "graphql: server returned a non-200 status code: %v"

(* ------------------------ input universes ----------------------------- *)
Forms == {"unified", "legacy"}
URLs == {"https://api.test/graphql", "://bad"}
VarKeys == {"key", "id"}
\* "chan" stands for a Go value encoding/json cannot marshal
VarValues == {"value", "chan"}
\* field and file names are sequences of characters, so that their quoting
\* in the Content-Disposition header can be computed
FieldNames == { <<"f">> }
FileNames == { <<"a">>, <<"a", "\"", "\\">> }
Statuses == {200, 500}
\* one decoded "data" value: Run passes it through untouched
DataValues == {"obj"}
JSONErrors == { [message |-> "not found", path |-> <<"item">>],
                [message |-> "denied",    path |-> <<>>] }
\* header names as http.Header holds them (canonical form)
HeaderKeys == {"X-Test", "Content-Type"}
HeaderValues == {"a", "b"}
AdapterErrs == {"dial tcp: connection refused"}
ReaderErrs == {"unexpected EOF"}
\* values of the closeReq option (ImmediatelyCloseReqBody sets it); Run only
\* copies it to r.Close
CloseReqs == {FALSE}

VARIABLES
    client,       \* Client: url, useMultipartForm, closeReq
    req,          \* GraphRequest: query, vars, files, Header
    varCalls,     \* number of Var calls made by the caller
    varHist,      \* the Var calls made, in order, as <<key, value>>
    ctx,          \* context state: "live", "canceled", "deadline"
    cancelPhase,  \* pc at which the context was cancelled ("never" if not)
    form,         \* calling form of the Run in progress
    pc,           \* "build", "files", "sending", "reading", "done"
    fileIdx,      \* index of the attachment being copied
    requestBody,  \* encoded body: parts (multipart) or one JSON document
    reads,        \* per attachment: number of io.Copy calls on its reader
    failedFile,   \* [idx, cause] of the attachment whose read failed
    httpReq,      \* the outgoing *http.Request handed to Do
    sends,        \* number of httpClient.Do invocations
    doErr,        \* the error httpClient.Do returned
    res,          \* the *http.Response Do returned
    bodyOpen,     \* res.Body is open
    readOk,       \* the response body was buffered without error
    ret,          \* what Run returned: [env, err]
    errorResp,    \* legacy error target
    log           \* lines handed to c.Log, as tags

callerVars == <<client, req, varCalls, varHist>>
ctxVars == <<ctx, cancelPhase>>
encVars == <<fileIdx, requestBody, reads, failedFile>>
netVars == <<httpReq, sends, doErr, res, bodyOpen, readOk>>
outVars == <<ret, errorResp, log>>
vars == <<callerVars, ctxVars, form, pc, encVars, netVars, outVars>>

(* ---------------------------- values ---------------------------------- *)
EmptyMap == [k \in {} |-> "value"]
NilVars == [isNil |-> TRUE, m |-> EmptyMap]

NoErr == [kind |-> "nil", msg |-> "", code |-> 0, cause |-> ""]
NilEnv == [isNil |-> TRUE, Data |-> "nil", Errors |-> <<>>]
NoRes == [present |-> FALSE, StatusCode |-> 0,
          Body |-> [kind |-> "none", data |-> "null", errors |-> <<>>]]
NoReq == [present |-> FALSE, URL |-> "", Close |-> FALSE,
          Header |-> [n \in {} |-> <<>>], Body |-> <<>>, ctxBound |-> FALSE]

\* ctx.Err()
CtxErr(c) == [kind |-> "ctx",
              msg |-> IF c = "deadline" THEN "context deadline exceeded"
                      ELSE "context canceled",
              code |-> 0, cause |-> ""]
\* errors.New("cannot send files with PostFields option")
ConfigErr == [kind |-> "config", msg |-> "cannot send files with PostFields option",
              code |-> 0, cause |-> ""]
\* errors.Wrap(err, msg)
Wrap(cause, msg) == [kind |-> "wrap", msg |-> msg, code |-> 0, cause |-> cause]
\* fmt.Errorf(messageCodeNotOK, res.StatusCode)
StatusErr(code) == [kind |-> "status", msg |-> messageCodeNotOK, code |-> code, cause |-> ""]
\* the error value the adapter / http.NewRequest produced, passed through as is
AdapterErr(e) == [kind |-> "adapter", msg |-> e, code |-> 0, cause |-> ""]
URLErr == [kind |-> "url", msg |-> "parse: missing protocol scheme", code |-> 0, cause |-> ""]
\* GraphErr used as an error: Error() is "graphql: " + Message
GraphQLErr(e) == [kind |-> "graphql", msg |-> e.Message, code |-> 0, cause |-> ""]
\* runtime panic: nil pointer dereference
PanicErr == [kind |-> "panic", msg |-> "nil pointer dereference", code |-> 0, cause |-> ""]

(* ------------------------ JSON values on the wire ---------------------- *)
\* a response body as the JSON value it holds (or no JSON at all)
MalformedBody == [kind |-> "malformed", data |-> "null", errors |-> <<>>]
NullBody == [kind |-> "null", data |-> "null", errors |-> <<>>]
\* a JSON object whose "errors" is not a list: valid JSON, not the envelope
MismatchBody == [kind |-> "mismatch", data |-> "null", errors |-> <<>>]
ErrorLists == UNION { [1..n -> JSONErrors] : n \in 0..MaxErrors }
ObjectBodies == { [kind |-> "object", data |-> d, errors |-> es] :
                    d \in DataValues, es \in ErrorLists }
Bodies == ObjectBodies \cup {NullBody, MalformedBody, MismatchBody}

(* --------------------------- GraphRequest ------------------------------ *)
EmptyHeader == [n \in {} |-> <<>>]

\* NewGraphqlRequest(query)
NewGraphqlRequest(query) ==
    [query |-> query, vars |-> NilVars, files |-> <<>>, Header |-> EmptyHeader]

\* mutant: an entry that exists is kept (first write wins)
VarSet_firstWins(r, key, value) ==
    [r EXCEPT !.vars = [isNil |-> FALSE,
                        m |-> [k \in DOMAIN r.vars.m \cup {key} |->
                                  IF k \in DOMAIN r.vars.m THEN r.vars.m[k] ELSE value]]]

\* req.Var(key, value): allocates the map on first use, then overwrites
VarSet(r, key, value) ==
    [r EXCEPT !.vars = [isNil |-> FALSE,
                        m |-> [k \in DOMAIN r.vars.m \cup {key} |->
                                  IF k = key THEN value ELSE r.vars.m[k]]]]

\* req.File(fieldname, filename, r): appends
FileAppend(r, fieldname, filename, reader) ==
    [r EXCEPT !.files = Append(@, [Field |-> fieldname, Name |-> filename, R |-> reader])]

\* req.Header.Add(key, value): appends to the values of key
HeaderAppend(r, key, value) ==
    [r EXCEPT !.Header = [n \in DOMAIN r.Header \cup {key} |->
                             (IF n \in DOMAIN r.Header THEN r.Header[n] ELSE <<>>) \o
                             (IF n = key THEN <<value>> ELSE <<>>)]]

\* number of header values the Request carries
RECURSIVE HeaderCountOver(_, _)
HeaderCountOver(r, names) ==
    IF names = {} THEN 0
    ELSE LET n == CHOOSE x \in names : TRUE
         IN  Len(r.Header[n]) + HeaderCountOver(r, names \ {n})
HeaderCount(r) == HeaderCountOver(r, DOMAIN r.Header)

\* len(req.vars): 0 for the nil map
LenVars(r) == Cardinality(DOMAIN r.vars.m)

(* ------------------------------ Client --------------------------------- *)
\* NewClient(url, opts...): the options set useMultipartForm and closeReq
\* (query, params, headers and graphqlRequest are fields nothing assigns)
NewClient(url, multipart, close) ==
    [url |-> url, useMultipartForm |-> multipart, closeReq |-> close,
     query |-> "", params |-> "nil", headers |-> "nil", graphqlRequest |-> "nil",
     httpClient |-> "doer", Log |-> "sink"]

\* mutant: Run keeps the Request in the Client's graphqlRequest field
RunClientWrites_retain(c, r) == [c EXCEPT !.graphqlRequest = "req"]

\* the Client as Run leaves it: Run, runWithJSON and runWithPostFields read
\* c.url, c.useMultipartForm, c.closeReq, c.httpClient and c.Log and assign
\* no field of c
RunClientWrites(c, r) == c

\* mutant: the guard on ctx.Done() is missing
CtxDone_never(c) == FALSE

\* select { case <-ctx.Done(): ...; default: }
CtxDone(c) == c # "live"

\* mutant: the files guard is off by one
FilesWithoutMultipart_offByOne(r, c) == Len(r.files) > 1 /\ ~c.useMultipartForm

\* len(req.files) > 0 && !c.useMultipartForm
FilesWithoutMultipart(r, c) == Len(r.files) > 0 /\ ~c.useMultipartForm

(* ----------------------------- encoders -------------------------------- *)
\* encoding/json refuses a value it cannot marshal
Encodable(r) == \A k \in DOMAIN r.vars.m : r.vars.m[k] # "chan"

\* JSON of the variables map: the nil map encodes as null
EncodeVars(r) == [null |-> r.vars.isNil, obj |-> r.vars.m]
NoJSON == [null |-> TRUE, obj |-> EmptyMap]

Part(kind, name, filename, text, json, content) ==
    [kind |-> kind, name |-> name, filename |-> filename, text |-> text,
     json |-> json, content |-> content]

\* graphqlModel{Query, Variables} encoded by json.NewEncoder
EncodeGraphqlModel(r) == <<Part("json", <<>>, <<>>, r.query, EncodeVars(r), 0)>>

\* mutant: names are written between the quotes as they are
escapeQuotes_none(s) == s

\* mime/multipart escapeQuotes: a backslash before every backslash and quote
RECURSIVE escapeQuotes(_)
escapeQuotes(s) ==
    IF s = <<>> THEN <<>>
    ELSE (IF Head(s) \in {"\"", "\\"} THEN <<"\\", Head(s)>> ELSE <<Head(s)>>)
         \o escapeQuotes(Tail(s))

\* a parameter value of Content-Disposition: name="..." / filename="..."
Quoted(s) == <<"\"">> \o escapeQuotes(s) \o <<"\"">>

QueryName == <<"q", "u", "e", "r", "y">>
VariablesName == <<"v", "a", "r", "i", "a", "b", "l", "e", "s">>

\* writer.WriteField("query", req.query)
QueryField(r) == Part("field", Quoted(QueryName), <<>>, r.query, NoJSON, 0)
\* writer.CreateFormField("variables") + json Encode(req.vars)
VariablesField(r) == Part("field", Quoted(VariablesName), <<>>, "", EncodeVars(r), 0)
\* writer.CreateFormFile(Field, Name) + io.Copy(part, R): the reader's bytes
FilePart(f) == Part("file", Quoted(f.Field), Quoted(f.Name), "", NoJSON, f.R)

\* reading a quoted parameter value back (mime.ParseMediaType): after the
\* opening quote a backslash gives the next character, a quote ends the value
RECURSIVE UnquoteFrom(_, _)
UnquoteFrom(s, acc) ==
    IF s = <<>> THEN [ok |-> FALSE, value |-> acc]
    ELSE IF Head(s) = "\"" THEN [ok |-> Tail(s) = <<>>, value |-> acc]
    ELSE IF Head(s) = "\\"
         THEN IF Tail(s) = <<>> THEN [ok |-> FALSE, value |-> acc]
              ELSE UnquoteFrom(Tail(Tail(s)), Append(acc, Head(Tail(s))))
    ELSE UnquoteFrom(Tail(s), Append(acc, Head(s)))
Unquote(s) ==
    IF s = <<>> \/ Head(s) # "\"" THEN [ok |-> FALSE, value |-> <<>>]
    ELSE UnquoteFrom(Tail(s), <<>>)

\* a multipart body read back part by part (mime/multipart Reader): the form
\* fields by name, the file parts in their order
ParseMultipart(body) ==
    LET fields(n) == SelectSeq(body, LAMBDA p : p.kind = "field" /\ Unquote(p.name).value = n)
        fileParts == SelectSeq(body, LAMBDA p : p.kind = "file")
    IN  [ok |-> \A i \in DOMAIN body :
                   /\ Unquote(body[i].name).ok
                   /\ body[i].kind = "file" => Unquote(body[i].filename).ok,
         query |-> [i \in DOMAIN fields(QueryName) |-> fields(QueryName)[i].text],
         variables |-> [i \in DOMAIN fields(VariablesName) |-> fields(VariablesName)[i].json],
         files |-> [i \in DOMAIN fileParts |->
                      [Field |-> Unquote(fileParts[i].name).value,
                       Name |-> Unquote(fileParts[i].filename).value,
                       R |-> fileParts[i].content]]]

\* http.NewRequest fails on a URL it cannot parse
URLValid(url) == url # "://bad"

JSONContentType == "application/json; charset=utf-8"
FormDataContentType == "multipart/form-data; boundary=B"

\* mutant: the caller's values are put with Header.Set, so that the last
\* value of a name replaces what the name held
addHTTPHeaders_set(r, contentType) ==
    LET own == [n \in {"Content-Type", "Accept"} |->
                  IF n = "Content-Type" THEN <<contentType>> ELSE <<JSONContentType>>]
    IN  [n \in DOMAIN own \cup DOMAIN r.Header |->
            IF n \in DOMAIN r.Header /\ r.Header[n] # <<>>
            THEN <<r.Header[n][Len(r.Header[n])]>>
            ELSE own[n]]

\* Header.Set Content-Type, Header.Set Accept, then Header.Add of every
\* value of req.Header, in order
addHTTPHeaders(r, contentType) ==
    LET own == [n \in {"Content-Type", "Accept"} |->
                  IF n = "Content-Type" THEN <<contentType>> ELSE <<JSONContentType>>]
    IN  [n \in DOMAIN own \cup DOMAIN r.Header |->
            (IF n \in DOMAIN own THEN own[n] ELSE <<>>) \o
            (IF n \in DOMAIN r.Header THEN r.Header[n] ELSE <<>>)]

(* ----------------------------- decoding -------------------------------- *)
GraphErrOf(e) == [Message |-> e.message, Path |-> e.path]

\* json.NewDecoder(&buf).Decode(&graphResponse): the target is a pointer to
\* the *GraphResponse, so a JSON null sets the pointer itself to nil
Decode(body) ==
    CASE body.kind = "object" ->
            [ok |-> TRUE, cause |-> "",
             gr |-> [isNil |-> FALSE, Data |-> body.data,
                     Errors |-> [i \in 1..Len(body.errors) |-> GraphErrOf(body.errors[i])]]]
      [] body.kind = "null" -> [ok |-> TRUE, cause |-> "", gr |-> NilEnv]
      [] body.kind = "mismatch" ->
            [ok |-> FALSE, cause |-> "json: cannot unmarshal", gr |-> NilEnv]
      [] OTHER -> [ok |-> FALSE, cause |-> "invalid character", gr |-> NilEnv]

\* json.Unmarshal(buf.Bytes(), &errorResp), its error dropped: only a JSON
\* object populates the caller's target
Unmarshal(bytes, target) ==
    IF bytes.kind \in {"object", "mismatch"} THEN "populated" ELSE target

\* what buf.Bytes() holds once the Decoder has read from buf: the Decoder
\* reads the buffer in 512-byte chunks, so a body of ordinary size is drained
DrainedBuf == [kind |-> "empty", data |-> "null", errors |-> <<>>]

Result(env, err, target) == [env |-> env, err |-> err, errorResp |-> target]

\* mutant: a decode failure is ignored and the envelope returned as it is
runWithJSON_decode_ignoreDecodeErr(status, body, target) ==
    IF status # StatusOK
    THEN Result(NilEnv, StatusErr(status), target)
    ELSE Result(Decode(body).gr, NoErr, target)

\* runWithJSON, unified form, after the body is buffered: status check first,
\* then decode; the envelope is returned with a nil error
runWithJSON_decode(status, body, target) ==
    IF status # StatusOK
    THEN Result(NilEnv, StatusErr(status), target)
    ELSE LET d == Decode(body) IN
         IF ~d.ok
         THEN Result(NilEnv, Wrap(d.cause, "decoding response"), target)
         ELSE Result(d.gr, NoErr, target)

\* mutant: a decode failure is reported as such whatever the status
runWithPostFields_decode_noStatus(status, body, target) ==
    LET d == Decode(body) IN
    IF ~d.ok
    THEN Result(NilEnv, Wrap(d.cause, "decoding response"), target)
    ELSE Result(d.gr, NoErr, target)

\* runWithPostFields, unified form, after the body is buffered: decode first,
\* the status is looked at only when the decode failed
runWithPostFields_decode(status, body, target) ==
    LET d == Decode(body) IN
    IF ~d.ok
    THEN IF status # StatusOK
         THEN Result(NilEnv, StatusErr(status), target)
         ELSE Result(NilEnv, Wrap(d.cause, "decoding response"), target)
    ELSE Result(d.gr, NoErr, target)

\* the legacy form's ending: len(gr.Errors) > 0 ? gr.Errors[0] : nil; gr is
\* nil after a JSON null, and gr.Errors then dereferences nil
legacy_firstError(gr, target) ==
    IF gr.isNil THEN Result(NilEnv, PanicErr, target)
    ELSE IF Len(gr.Errors) > 0
         THEN Result(NilEnv, GraphQLErr(gr.Errors[1]), target)
         ELSE Result(NilEnv, NoErr, target)

\* runWithJSON, legacy form
legacy_runWithJSON_decode(status, body, target) ==
    IF status # StatusOK
    THEN Result(NilEnv, StatusErr(status), Unmarshal(body, target))
    ELSE LET d == Decode(body) IN
         IF ~d.ok
         THEN Result(NilEnv, Wrap(d.cause, "decoding response"), target)
         ELSE legacy_firstError(d.gr, target)

\* runWithPostFields, legacy form
legacy_runWithPostFields_decode(status, body, target) ==
    LET d == Decode(body) IN
    IF ~d.ok
    THEN IF status # StatusOK
         THEN Result(NilEnv, StatusErr(status), Unmarshal(DrainedBuf, target))
         ELSE Result(NilEnv, Wrap(d.cause, "decoding response"), target)
    ELSE legacy_firstError(d.gr, target)

\* mutant: the close is deferred only after the body was read
BodyOpenAtReturn_afterRead(readFailed) == readFailed

\* defer res.Body.Close(), registered before the body is read: the body is
\* not open after any return
BodyOpenAtReturn(readFailed) == FALSE

(* ------------------------------- Init ---------------------------------- *)
Init ==
    /\ client \in { NewClient(u, m, c) : u \in URLs, m \in BOOLEAN, c \in CloseReqs }
    /\ req = NewGraphqlRequest("query { items }")
    /\ varCalls = 0
    /\ varHist = <<>>
    /\ ctx = "live"
    /\ cancelPhase = "never"
    /\ form = "none"
    /\ pc = "build"
    /\ fileIdx = 0
    /\ requestBody = <<>>
    /\ reads = <<>>
    /\ failedFile = [idx |-> 0, cause |-> ""]
    /\ httpReq = NoReq
    /\ sends = 0
    /\ doErr = NoErr
    /\ res = NoRes
    /\ bodyOpen = FALSE
    /\ readOk = FALSE
    /\ ret = [env |-> NilEnv, err |-> NoErr]
    /\ errorResp = "unset"
    /\ log = <<>>

(* --------------------------- caller actions ---------------------------- *)
Var(key, value) ==
    /\ pc = "build"
    /\ varCalls < MaxVarCalls
    /\ req' = VarSet(req, key, value)
    /\ varCalls' = varCalls + 1
    /\ varHist' = Append(varHist, <<key, value>>)
    /\ UNCHANGED <<client, ctxVars, form, pc, encVars, netVars, outVars>>

File(fieldname, filename) ==
    /\ pc = "build"
    /\ Len(req.files) < MaxFiles
    /\ req' = FileAppend(req, fieldname, filename, Len(req.files) + 1)
    /\ UNCHANGED <<client, varCalls, varHist, ctxVars, form, pc, encVars, netVars, outVars>>

\* req.Header.Add(key, value), before the Run
HeaderAdd(key, value) ==
    /\ pc = "build"
    /\ HeaderCount(req) < MaxHeaderAdds
    /\ req' = HeaderAppend(req, key, value)
    /\ UNCHANGED <<client, varCalls, varHist, ctxVars, form, pc, encVars, netVars, outVars>>

\* the caller cancels the context, or its deadline passes, at any moment
Cancel(how) ==
    /\ ctx = "live"
    /\ pc # "done"
    /\ ctx' = how
    /\ cancelPhase' = pc
    /\ UNCHANGED <<callerVars, form, pc, encVars, netVars, outVars>>

(* ------------------------------- Run ----------------------------------- *)
\* return nil, err
Return(err) ==
    /\ pc' = "done"
    /\ ret' = [env |-> NilEnv, err |-> err]

\* logs, http.NewRequest, r.Close, addHTTPHeaders, r.WithContext(ctx), and
\* the call of c.httpClient.Do(r)
Dispatch(body, contentType, lines) ==
    /\ requestBody' = body
    /\ IF ~URLValid(client.url)
       THEN /\ Return(URLErr)
            /\ log' = log \o lines
            /\ UNCHANGED netVars
       ELSE /\ httpReq' = [present |-> TRUE, URL |-> client.url,
                           Close |-> client.closeReq,
                           Header |-> addHTTPHeaders(req, contentType),
                           Body |-> body, ctxBound |-> TRUE]
            /\ log' = log \o lines \o <<">> headers">>
            /\ sends' = sends + 1
            /\ pc' = "sending"
            /\ UNCHANGED <<doErr, res, bodyOpen, readOk, ret>>

\* runWithJSON up to the call of Do
runWithJSON ==
    IF ~Encodable(req)
    THEN /\ Return(Wrap("json: unsupported type", "encode body"))
         /\ UNCHANGED <<requestBody, netVars, log>>
    ELSE Dispatch(EncodeGraphqlModel(req), JSONContentType,
                  <<">> variables", ">> query">>)

PostFieldsLines == <<">> variables", ">> files", ">> query">>

\* runWithPostFields up to the first attachment (or to Do when there is none)
runWithPostFields ==
    IF LenVars(req) > 0 /\ ~Encodable(req)
    THEN /\ Return(Wrap("json: unsupported type", "encode variables"))
         /\ UNCHANGED <<fileIdx, requestBody, netVars, log>>
    ELSE LET written == <<QueryField(req)>> \o
                        (IF LenVars(req) > 0 THEN <<VariablesField(req)>> ELSE <<>>)
         IN  IF Len(req.files) = 0
             THEN /\ Dispatch(written, FormDataContentType, PostFieldsLines)
                  /\ UNCHANGED fileIdx
             ELSE /\ requestBody' = written
                  /\ fileIdx' = 1
                  /\ pc' = "files"
                  /\ UNCHANGED <<netVars, ret, log>>

\* mutant: the files guard is evaluated before the context guard
RunGuards_filesFirst(c, r, cl) ==
    IF FilesWithoutMultipart(r, cl) THEN ConfigErr
    ELSE IF CtxDone(c) THEN CtxErr(c)
    ELSE NoErr

\* the two guards of Run, in their order: the error Run returns at once, or
\* nil when it goes on to encode
RunGuards(c, r, cl) ==
    IF CtxDone(c) THEN CtxErr(c)
    ELSE IF FilesWithoutMultipart(r, cl) THEN ConfigErr
    ELSE NoErr

Run(f) ==
    /\ pc = "build"
    /\ form' = f
    /\ reads' = [i \in 1..Len(req.files) |-> 0]
    /\ IF RunGuards(ctx, req, client) # NoErr
       THEN /\ Return(RunGuards(ctx, req, client))
            /\ UNCHANGED <<fileIdx, requestBody, netVars, log>>
       ELSE IF client.useMultipartForm
       THEN runWithPostFields
       ELSE runWithJSON /\ UNCHANGED fileIdx
    /\ client' = RunClientWrites(client, req)
    /\ UNCHANGED <<req, varCalls, varHist, ctxVars, failedFile, errorResp>>

\* mutant: the read failure is dropped and the body sent as far as written
CopyFailed_sendAnyway(cause) ==
    /\ failedFile' = [idx |-> fileIdx, cause |-> cause]
    /\ Dispatch(requestBody, FormDataContentType, PostFieldsLines)
    /\ UNCHANGED fileIdx

\* io.Copy(part, req.files[i].R) failed: return nil, errors.Wrap(err, "preparing file")
CopyFailed(cause) ==
    /\ failedFile' = [idx |-> fileIdx, cause |-> cause]
    /\ Return(Wrap(cause, "preparing file"))
    /\ UNCHANGED <<fileIdx, requestBody, netVars, log>>

\* mutant: the loop is left after its first round
LastFile_early(i, r) == TRUE

\* for i := range req.files: the round of the last attachment ends the loop
LastFile(i, r) == i = Len(r.files)

\* one round of the attachment loop: CreateFormFile, then io.Copy(part, R)
CopyFile ==
    /\ pc = "files"
    /\ reads' = [reads EXCEPT ![fileIdx] = @ + 1]
    /\ \/ /\ LET written == Append(requestBody, FilePart(req.files[fileIdx])) IN
             IF LastFile(fileIdx, req)
             THEN /\ Dispatch(written, FormDataContentType, PostFieldsLines)
                  /\ UNCHANGED fileIdx
             ELSE /\ requestBody' = written
                  /\ fileIdx' = fileIdx + 1
                  /\ UNCHANGED <<pc, netVars, ret, log>>
          /\ UNCHANGED failedFile
       \/ \E cause \in ReaderErrs : CopyFailed(cause)
    /\ UNCHANGED <<callerVars, ctxVars, form, errorResp>>

(* --------------------------- the transport ----------------------------- *)
\* errors the adapter can give: its own, and ctx.Err() once the context is done
DoErrors == {AdapterErr(a) : a \in AdapterErrs} \cup
            (IF ctx = "live" THEN {} ELSE {CtxErr(ctx)})

\* mutant: the adapter's error is wrapped before it is returned
DoError_wrapped(e) ==
    /\ pc = "sending"
    /\ doErr' = e
    /\ Return(Wrap(e.msg, "sending request"))
    /\ UNCHANGED <<callerVars, ctxVars, form, encVars, httpReq, sends, res,
                   bodyOpen, readOk, errorResp, log>>

\* Do returns an error: return nil, err
DoError(e) ==
    /\ pc = "sending"
    /\ doErr' = e
    /\ Return(e)
    /\ UNCHANGED <<callerVars, ctxVars, form, encVars, httpReq, sends, res,
                   bodyOpen, readOk, errorResp, log>>

\* Do returns a response
DoResponse(status, body) ==
    /\ pc = "sending"
    /\ res' = [present |-> TRUE, StatusCode |-> status, Body |-> body]
    /\ bodyOpen' = TRUE
    /\ pc' = "reading"
    /\ UNCHANGED <<callerVars, ctxVars, form, encVars, httpReq, sends, doErr,
                   readOk, outVars>>

\* errors a read of the response body can give
BodyReadErrors == ReaderErrs \cup (IF ctx = "live" THEN {} ELSE {CtxErr(ctx).msg})

\* mutant: the raw body is not logged
logfBody_none(lines) == lines

\* c.logf("<< %s", buf.String()), right after the body is buffered and
\* before the status is looked at
logfBody(lines) == Append(lines, "<< body")

\* io.Copy(&buf, res.Body) and everything after it
ReadBody ==
    /\ pc = "reading"
    /\ pc' = "done"
    /\ \/ \E cause \in BodyReadErrors :
            /\ readOk' = FALSE
            /\ ret' = [env |-> NilEnv, err |-> Wrap(cause, "reading body")]
            /\ bodyOpen' = BodyOpenAtReturn(TRUE)
            /\ UNCHANGED <<errorResp, log>>
       \/ /\ readOk' = TRUE
          /\ log' = logfBody(log)
          /\ bodyOpen' = BodyOpenAtReturn(FALSE)
          /\ LET r == IF form = "unified"
                      THEN IF client.useMultipartForm
                           THEN runWithPostFields_decode(res.StatusCode, res.Body, errorResp)
                           ELSE runWithJSON_decode(res.StatusCode, res.Body, errorResp)
                      ELSE IF client.useMultipartForm
                           THEN legacy_runWithPostFields_decode(res.StatusCode, res.Body, errorResp)
                           ELSE legacy_runWithJSON_decode(res.StatusCode, res.Body, errorResp)
             IN  /\ ret' = [env |-> r.env, err |-> r.err]
                 /\ errorResp' = r.errorResp
    /\ UNCHANGED <<callerVars, ctxVars, form, encVars, httpReq, sends, doErr, res>>

Next ==
    \/ \E k \in VarKeys, v \in VarValues : Var(k, v)
    \/ \E f \in FieldNames, n \in FileNames : File(f, n)
    \/ \E how \in {"canceled", "deadline"} : Cancel(how)
    \/ \E f \in Forms : Run(f)
    \/ CopyFile
    \/ \E e \in DoErrors : DoError(e)
    \/ \E s \in Statuses, b \in Bodies : DoResponse(s, b)
    \/ ReadBody

Spec == Init /\ [][Next]_vars

\* the building of the outgoing request, up to the call of Do, for a caller
\* that also sets header fields
NextRequest ==
    \/ \E k \in VarKeys, v \in VarValues : Var(k, v)
    \/ \E f \in FieldNames, n \in FileNames : File(f, n)
    \/ \E k \in HeaderKeys, v \in HeaderValues : HeaderAdd(k, v)
    \/ \E how \in {"canceled", "deadline"} : Cancel(how)
    \/ \E f \in Forms : Run(f)
    \/ CopyFile

SpecRequest == Init /\ [][NextRequest]_vars

(* ============================== claims ================================= *)

\* C1 (as stated): whenever the response status is not 200 and the body was
\* read and decodes as a {data, errors} envelope, Run returns the HTTP-status
\* error carrying that status.
C1_StatusBeatsParsedBody ==
    (pc = "done" /\ readOk /\ res.StatusCode # StatusOK
       /\ res.Body.kind = "object" /\ Decode(res.Body).ok)
        => ret = [env |-> NilEnv, err |-> StatusErr(res.StatusCode)]

\* C2 (as stated): with status 200 and a decoded envelope whose errors list
\* is not empty, Run's error is the first error of the list and the envelope
\* holds the whole list; Run returns no error only when the list is empty.
C2_FirstErrorSurfaced ==
    (pc = "done" /\ readOk /\ res.StatusCode = StatusOK
       /\ Decode(res.Body).ok /\ ~Decode(res.Body).gr.isNil)
        => LET gr == Decode(res.Body).gr IN
           /\ Len(gr.Errors) > 0 =>
                 /\ ret.err = GraphQLErr(gr.Errors[1])
                 /\ form = "unified" => ret.env.Errors = gr.Errors
           /\ ret.err = NoErr => Len(gr.Errors) = 0

\* C3: a Run called with a context that is already cancelled or expired
\* returns the context's error and never calls the transport.
C3_CancelledBeforeRun ==
    (cancelPhase = "build" /\ pc # "build")
        => /\ pc = "done"
           /\ ret = [env |-> NilEnv, err |-> CtxErr(ctx)]
           /\ sends = 0
           /\ ~httpReq.present

C3_Witness ==
    /\ pc = "done" /\ cancelPhase = "build"
    /\ ctx = "deadline" /\ client.useMultipartForm /\ Len(req.files) = 2
    /\ ret.err = CtxErr("deadline")

\* C4 (as stated): a Run of a Request with files on a Client without the
\* multipart option returns the configuration-mismatch error, with no send.
C4_Original ==
    (pc = "done" /\ Len(req.files) > 0 /\ ~client.useMultipartForm)
        => (ret.err = ConfigErr /\ sends = 0)

\* C4 (amended): such a Run never calls the transport; it returns the
\* configuration-mismatch error when the context is live at the call, and
\* the context's error when the context is already cancelled or expired.
C4_FilesNeedMultipart ==
    (pc # "build" /\ Len(req.files) > 0 /\ ~client.useMultipartForm)
        => /\ pc = "done"
           /\ sends = 0
           /\ ret = [env |-> NilEnv,
                     err |-> IF cancelPhase = "build" THEN CtxErr(ctx) ELSE ConfigErr]

C4_Witness ==
    /\ pc = "done" /\ Len(req.files) = 1 /\ ~client.useMultipartForm
    /\ cancelPhase = "never" /\ ret.err = ConfigErr /\ sends = 0

\* C5 (as stated): when the context is cancelled while the send or the body
\* read is in progress, Run returns a cancellation error.  Runs in which the
\* adapter or the body reader failed for a reason of its own after the
\* cancellation are left out: what remains is a transport that reports the
\* cancellation, or delivers what had already arrived.
C5_CancelDuringIO ==
    (pc = "done" /\ cancelPhase \in {"sending", "reading"}
       /\ doErr.kind # "adapter"
       /\ ~(ret.err.msg = "reading body" /\ ret.err.cause \in ReaderErrs))
        => ret.err.kind = "ctx"

\* C6: once Run has returned, the body of the response the transport gave
\* is closed, whatever the exit path.
C6_BodyClosedOnReturn ==
    pc = "done" => ~bodyOpen

C6_Witness ==
    /\ pc = "done" /\ res.present /\ ~readOk /\ ~bodyOpen
    /\ ret.err.msg = "reading body"

\* C7: a non-200 response whose body was read and does not decode gives the
\* HTTP-status error with the status code, in both modes and both forms.
C7_StatusErrorOnUndecodableBody ==
    (pc = "done" /\ readOk /\ res.StatusCode # StatusOK /\ ~Decode(res.Body).ok)
        => ret = [env |-> NilEnv, err |-> StatusErr(res.StatusCode)]

C7_Witness ==
    /\ pc = "done" /\ readOk /\ res.StatusCode = 500 /\ res.Body = MalformedBody
    /\ client.useMultipartForm /\ form = "unified"
    /\ ret.err = StatusErr(500)

\* C8: a 200 response whose body was read and does not decode gives a decode
\* error wrapping the parse failure, never a success or a status error.
C8_DecodeErrorOn200 ==
    (pc = "done" /\ readOk /\ res.StatusCode = StatusOK /\ ~Decode(res.Body).ok)
        => ret = [env |-> NilEnv,
                  err |-> Wrap(Decode(res.Body).cause, "decoding response")]

C8_Witness ==
    /\ pc = "done" /\ readOk /\ res.StatusCode = StatusOK /\ res.Body = MalformedBody
    /\ ~client.useMultipartForm /\ form = "unified"
    /\ ret.err.kind = "wrap" /\ ret.err.cause = "invalid character"

\* C9: a Run calls the transport at most once, and when the call fails Run
\* returns exactly the error the adapter gave.
C9_SendOnceErrorVerbatim ==
    /\ sends <= 1
    /\ (pc = "done" /\ doErr # NoErr)
          => (ret = [env |-> NilEnv, err |-> doErr] /\ sends = 1 /\ ~res.present)

C9_Witness ==
    /\ pc = "done" /\ sends = 1
    /\ doErr = AdapterErr("dial tcp: connection refused") /\ ret.err = doErr

\* C10: in multipart mode, when the read of an attachment fails, Run returns
\* the error wrapping that failure, the transport is never called, and no
\* later attachment is read.
C10_FileReadFailureAborts ==
    failedFile.idx # 0
        => /\ pc = "done"
           /\ ret = [env |-> NilEnv, err |-> Wrap(failedFile.cause, "preparing file")]
           /\ sends = 0
           /\ \A j \in DOMAIN reads : j > failedFile.idx => reads[j] = 0

C10_Witness ==
    /\ pc = "done" /\ failedFile.idx = 1 /\ Len(req.files) = 2
    /\ reads = <<1, 0>> /\ sends = 0
    /\ ret.err = Wrap("unexpected EOF", "preparing file")

\* C11: the outgoing request carries the Client's Content-Type (per mode)
\* and Accept as first values, and after them every header value of the
\* Request under its name, in the Request's order; nothing is replaced, also
\* when the Request itself names Content-Type.
C11_HeadersAdditive ==
    httpReq.present =>
        LET H == httpReq.Header
            ct == IF client.useMultipartForm THEN FormDataContentType
                  ELSE JSONContentType
            given(n) == IF n \in DOMAIN req.Header THEN req.Header[n] ELSE <<>>
        IN  /\ DOMAIN H = {"Content-Type", "Accept"} \cup DOMAIN req.Header
            /\ H["Content-Type"][1] = ct
            /\ H["Accept"][1] = "application/json; charset=utf-8"
            /\ Len(H["Content-Type"]) = 1 + Len(given("Content-Type"))
            /\ Len(H["Accept"]) = 1 + Len(given("Accept"))
            /\ \A n \in DOMAIN req.Header :
                  SubSeq(H[n], Len(H[n]) - Len(req.Header[n]) + 1, Len(H[n]))
                      = req.Header[n]
            /\ \A n \in DOMAIN req.Header \ {"Content-Type", "Accept"} :
                  H[n] = req.Header[n]

C11_Witness ==
    /\ httpReq.present
    /\ req.Header = [n \in {"X-Test", "Content-Type"} |->
                        IF n = "X-Test" THEN <<"b">> ELSE <<"a">>]
    /\ httpReq.Header["Content-Type"] = <<"application/json; charset=utf-8", "a">>
    /\ httpReq.Header["X-Test"] = <<"b">>

\* C12: the body a JSON-mode Run sends is the one document {"query": Q,
\* "variables": V}: V is null when Var was never called, and otherwise holds
\* exactly the names given to Var, each with the value of its last call.
C12_JSONBodyLastWriteWins ==
    (httpReq.present /\ ~client.useMultipartForm) =>
        LET named == { varHist[i][1] : i \in DOMAIN varHist }
            last(k) == varHist[CHOOSE i \in DOMAIN varHist :
                                  /\ varHist[i][1] = k
                                  /\ \A j \in DOMAIN varHist :
                                        varHist[j][1] = k => j <= i][2]
        IN  /\ Len(httpReq.Body) = 1
            /\ httpReq.Body[1].kind = "json"
            /\ httpReq.Body[1].text = req.query
            /\ httpReq.Body[1].json.null = (varHist = <<>>)
            /\ DOMAIN httpReq.Body[1].json.obj = named
            /\ \A k \in named : httpReq.Body[1].json.obj[k] = last(k)
            /\ req.files = <<>>

C12_Witness ==
    /\ httpReq.present /\ ~client.useMultipartForm
    /\ varHist = << <<"key", "chan">>, <<"key", "value">> >>
    /\ httpReq.Body[1].json = [null |-> FALSE, obj |-> [k \in {"key"} |-> "value"]]

\* C13: the multipart body a Run sends reads back to the Request: one
\* "query" field holding the query, a "variables" field holding the JSON of
\* the variables exactly when the mapping is not empty, and the attachments
\* in their order, each with its field name, file name and content.
C13_MultipartRoundTrip ==
    (httpReq.present /\ client.useMultipartForm) =>
        LET parsed == ParseMultipart(httpReq.Body)
        IN  /\ parsed.ok
            /\ parsed.query = <<req.query>>
            /\ parsed.variables =
                  (IF LenVars(req) > 0
                   THEN <<[null |-> FALSE, obj |-> req.vars.m]>> ELSE <<>>)
            /\ parsed.files = req.files
            /\ Len(httpReq.Body) = 1 + Len(parsed.variables) + Len(req.files)
            /\ httpReq.Body[1].kind = "field" /\ httpReq.Body[1].text = req.query

C13_Witness ==
    /\ httpReq.present /\ client.useMultipartForm
    /\ req.vars.m = [k \in {"key"} |-> "value"]
    /\ Len(req.files) = 2
    /\ req.files[1].Name = <<"a", "\"", "\\">>
    /\ req.files[2].Name = <<"a">>
    /\ ParseMultipart(httpReq.Body).files = req.files

C15_GuardOrder ==
    /\ (pc = "done" /\ cancelPhase = "build"
          /\ Len(req.files) > 0 /\ ~client.useMultipartForm)
          => ret.err = CtxErr(ctx)
    /\ (pc = "done" /\ ret.err = ConfigErr)
          => (cancelPhase = "never" /\ requestBody = <<>> /\ log = <<>> /\ sends = 0)
    /\ (pc = "done" /\ ret.err = CtxErr(ctx) /\ sends = 0)
          => (cancelPhase = "build" /\ requestBody = <<>> /\ log = <<>>)
    /\ (pc = "done" /\ cancelPhase = "files" /\ failedFile.idx = 0
          /\ URLValid(client.url))
          => sends = 1

C15_Witness ==
    /\ pc = "done" /\ cancelPhase = "build" /\ ctx = "canceled"
    /\ Len(req.files) = 1 /\ ~client.useMultipartForm
    /\ ret.err = CtxErr("canceled")

\* C16 (as stated): in the legacy form, whenever the status is not 200 and
\* the buffered body is JSON, the body is decoded into the caller's error
\* target and Run returns the HTTP-status error, in both modes.
C16_LegacyErrorTargetFilled ==
    (pc = "done" /\ form = "legacy" /\ readOk /\ res.StatusCode # StatusOK
       /\ res.Body.kind \in {"object", "mismatch"})
        => (errorResp = "populated" /\ ret.err = StatusErr(res.StatusCode))

\* C17: no attachment stream is read more than once, the streams are read
\* in attachment order, and when a multipart Run hands its request to the
\* transport every attachment has been read exactly once.
C17_AttachmentsReadOnce ==
    /\ \A i \in DOMAIN reads : reads[i] <= 1
    /\ \A i, j \in DOMAIN reads : (i < j /\ reads[j] = 1) => reads[i] = 1
    /\ (httpReq.present /\ client.useMultipartForm) =>
          /\ DOMAIN reads = 1..Len(req.files)
          /\ \A i \in DOMAIN reads : reads[i] = 1
          /\ \A i \in DOMAIN reads :
                \E p \in DOMAIN httpReq.Body :
                   httpReq.Body[p].kind = "file" /\ httpReq.Body[p].content = req.files[i].R

C17_Witness ==
    /\ pc = "done" /\ httpReq.present /\ client.useMultipartForm
    /\ Len(req.files) = 2 /\ reads = <<1, 1>> /\ sends = 1

\* C18 (as stated): every Run, whatever its outcome, has logged the lines of
\* the outgoing payload (variables, query, headers) and the line of the
\* incoming raw body.
C18_Original ==
    pc = "done" =>
        \A line \in {">> variables", ">> query", ">> headers", "<< body"} :
            \E i \in DOMAIN log : log[i] = line

\* C18 (amended): a Run that hands a request to the transport has logged the
\* outgoing lines before; a Run that buffered the response body has logged
\* the raw body as its last line, whatever the status and the decode
\* outcome; a Run that ends at a guard or on an encoding error logs nothing,
\* and a Run that did not buffer a body logs no incoming line.
C18_LogLines ==
    LET has(line) == \E i \in DOMAIN log : log[i] = line
        outgoing == IF client.useMultipartForm
                    THEN <<">> variables", ">> files", ">> query", ">> headers">>
                    ELSE <<">> variables", ">> query", ">> headers">>
    IN  /\ httpReq.present =>
              (Len(log) >= Len(outgoing) /\ SubSeq(log, 1, Len(outgoing)) = outgoing)
        /\ (pc = "done" /\ readOk) => log = Append(outgoing, "<< body")
        /\ (pc = "done" /\ ~readOk) => ~has("<< body")
        /\ (pc = "done" /\ ~httpReq.present) => ~has(">> headers")
        /\ (pc = "done" /\ sends = 0 /\ ret.err \in {ConfigErr, CtxErr(ctx)})
              => log = <<>>
        /\ (pc = "done" /\ ret.err.msg \in {"encode body", "encode variables",
                                             "preparing file"})
              => log = <<>>

C18_Witness ==
    /\ pc = "done" /\ readOk /\ res.StatusCode = 500 /\ res.Body = MalformedBody
    /\ ret.err = StatusErr(500)
    /\ log = <<">> variables", ">> files", ">> query", ">> headers", "<< body">>

\* C19 (as stated): the unified form returns either an envelope and a nil
\* error, or a nil envelope and an error, never both and never neither.
C19_EnvelopeXorError ==
    (pc = "done" /\ form = "unified") => (ret.env.isNil <=> ret.err # NoErr)

====
